---- MODULE Spec2Model ----
(***************************************************************************)
(* A model of the Hades GBA emulator core: the ARM7TDMI fetch/execute      *)
(* step with its one-word prefetch latch (core_reset, core_step,           *)
(* core_reload_pipeline), the decoding switch of core_step_arm, the run    *)
(* loop (core_run), the barrel shifter (core_compute_shift), the windows   *)
(* and masks of the memory map, and the GPIO block of the cartridge.       *)
(*                                                                         *)
(* A uint32_t is held as its two 16-bit halves: TLC's integers are 32-bit  *)
(* signed, so a word is never held as one number.                          *)
(***************************************************************************)
EXTENDS Integers, Sequences, FiniteSets, TLC

(***************************************************************************)
(* 32-bit words                                                            *)
(***************************************************************************)
WordBits == 32

Half == 2^16

\* The word with 16-bit halves hi and lo.
W(hi, lo) == [hi |-> hi, lo |-> lo]

Zero32 == W(0, 0)

Ones32 == W(Half - 1, Half - 1)

\* The word of a natural number below 2^31.
FromNat(n) == W(n \div Half, n % Half)

\* Bit i of a word, 0 or 1.
Bit(v, i) == IF i < 16 THEN (v.lo \div (2^i)) % 2 ELSE (v.hi \div (2^(i - 16))) % 2

\* The number held in bits a..b-1 of v (0 <= a <= b <= 32, b - a < 31).
BitsVal(v, a, b) ==
    IF a >= b THEN 0
    ELSE IF b <= 16 THEN (v.lo \div (2^a)) % (2^(b - a))
    ELSE IF a >= 16 THEN (v.hi \div (2^(a - 16))) % (2^(b - a))
    ELSE (v.lo \div (2^a)) + (2^(16 - a)) * (v.hi % (2^(b - 16)))

\* hades.h bitfield_get: bit i of a word, as a C truth value.
bitfield_get(v, i) == Bit(v, i) = 1

\* hades.h bitfield_get_range: bits start..end-1 of a word.
bitfield_get_range(v, start, end) == BitsVal(v, start, end)

\* C's v << n on a uint32_t, for 0 <= n < 32.
Shl(v, n) ==
    IF n < 16
    THEN W((v.hi * (2^n) + v.lo \div (2^(16 - n))) % Half, (v.lo * (2^n)) % Half)
    ELSE W((v.lo * (2^(n - 16))) % Half, 0)

\* C's v >> n on a uint32_t, for 0 <= n < 32.
Shr(v, n) ==
    IF n < 16
    THEN W(v.hi \div (2^n), (v.lo \div (2^n) + (v.hi % (2^n)) * (2^(16 - n))) % Half)
    ELSE W(0, v.hi \div (2^(n - 16)))

NotW(a) == W(Half - 1 - a.hi, Half - 1 - a.lo)

\* C's (int32_t)v >> n, for 0 <= n < 32 (an arithmetic shift, as every
\* supported compiler implements it).
Sar(v, n) == IF Bit(v, 31) = 0 THEN Shr(v, n) ELSE NotW(Shr(NotW(v), n))

RECURSIVE AndN(_, _, _)
\* The bitwise and of two numbers of k bits.
AndN(x, y, k) ==
    IF k = 0 THEN 0
    ELSE (x % 2) * (y % 2) + 2 * AndN(x \div 2, y \div 2, k - 1)

AndW(a, b) == W(AndN(a.hi, b.hi, 16), AndN(a.lo, b.lo, 16))

OrW(a, b) == W(a.hi + b.hi - AndN(a.hi, b.hi, 16), a.lo + b.lo - AndN(a.lo, b.lo, 16))

XorW(a, b) ==
    W(a.hi + b.hi - 2 * AndN(a.hi, b.hi, 16), a.lo + b.lo - 2 * AndN(a.lo, b.lo, 16))

\* a + b + cin modulo 2^32, with the carry out of bit 31.
AddC(a, b, cin) ==
    LET lo == a.lo + b.lo + cin
        hi == a.hi + b.hi + (lo \div Half)
    IN  [sum |-> W(hi % Half, lo % Half), carry |-> hi \div Half]

AddW(a, b) == AddC(a, b, 0).sum

\* The one element of a singleton set. {F(x) : x \in {e}} is F(e) with e
\* evaluated once, as a C statement is.
The(S) == CHOOSE v \in S : TRUE

(***************************************************************************)
(* The core and its memory                                                 *)
(***************************************************************************)
\* The entry point of the game, where core_reset points r15.
MemBase == 134217728

\* The number of 32-bit words of memory the model holds, from MemBase on.
MemWords == 2

\* The number of host operations (steps, resets, PC writes) of one run.
MaxOps == 5

MemIdx == 0..(MemWords - 1)

\* The address of word k of the modelled memory.
AddrOf(k) == FromNat(MemBase + 4 * k)

\* The modelled memory holds the addresses MemBase .. MemBase + 4 * MemWords - 1.
InWindow(addr) ==
    /\ Bit(addr, WordBits - 1) = 0
    /\ BitsVal(addr, 0, WordBits - 1) >= MemBase
    /\ BitsVal(addr, 0, WordBits - 1) < MemBase + 4 * MemWords

\* core_bus_read32 (little endian): the word holding addr. Outside the modelled
\* window the model reads zero; the actions never leave the core fetching there.
core_bus_read32(mem, addr) ==
    IF InWindow(addr)
    THEN mem[(BitsVal(addr, 0, WordBits - 1) - MemBase) \div 4]
    ELSE Zero32

\* core_bus_read16 (little endian): the half-word holding addr, zero-extended.
core_bus_read16(mem, addr) ==
    LET w == core_bus_read32(mem, addr)
    IN  W(0, IF Bit(addr, 1) = 1 THEN w.hi ELSE w.lo)

\* The value of cpsr after `cpsr.raw = 0`: every field zero.
CpsrZero ==
    [negative |-> 0, zero |-> 0, carry |-> 0, overflow |-> 0,
     irq_disable |-> 0, fiq_disable |-> 0, thumb |-> 0, mode |-> "MODE_0"]

\* struct core after core_init's memset. registers[15] is r15. status is
\* "running" until a panic() or unimplemented() ends the process.
\* prefetch_addr is a history field: the address the latch was read from.
CoreZero ==
    [registers |-> [r \in 0..15 |-> Zero32],
     cpsr |-> CpsrZero,
     prefetch |-> Zero32,
     big_endian |-> FALSE,
     status |-> "running",
     prefetch_addr |-> Zero32]

r15(c) == c.registers[15]

\* core_reload_pipeline without the advance of r15.
core_reload_pipeline_no_advance(c, mem) ==
    IF c.cpsr.thumb = 1
    THEN [c EXCEPT !.prefetch = core_bus_read16(mem, r15(c)),
                   !.prefetch_addr = r15(c)]
    ELSE [c EXCEPT !.prefetch = core_bus_read32(mem, r15(c)),
                   !.prefetch_addr = r15(c)]

\* core_reload_pipeline: refill the latch from r15 and advance r15 by one
\* instruction width.
core_reload_pipeline(c, mem) ==
    IF c.cpsr.thumb = 1
    THEN [c EXCEPT !.prefetch = core_bus_read16(mem, r15(c)),
                   !.prefetch_addr = r15(c),
                   !.registers[15] = AddW(r15(c), FromNat(2))]
    ELSE [c EXCEPT !.prefetch = core_bus_read32(mem, r15(c)),
                   !.prefetch_addr = r15(c),
                   !.registers[15] = AddW(r15(c), FromNat(4))]

\* core_reset without `cpsr.raw = 0`.
core_reset_keeps_cpsr(c, mem) ==
    LET c1 == [c EXCEPT !.registers = [r \in 0..15 |-> Zero32]]
        c2 == [c1 EXCEPT !.registers[15] = FromNat(MemBase)]
        c4 == [c2 EXCEPT !.cpsr.mode = "MODE_SYSTEM"]
        c5 == [c4 EXCEPT !.big_endian = FALSE]
    IN  core_reload_pipeline(c5, mem)

\* core_reset.
core_reset(c, mem) ==
    LET c1 == [c EXCEPT !.registers = [r \in 0..15 |-> Zero32]]
        c2 == [c1 EXCEPT !.registers[15] = FromNat(MemBase)]
        c3 == [c2 EXCEPT !.cpsr = CpsrZero]
        c4 == [c3 EXCEPT !.cpsr.mode = "MODE_SYSTEM"]
        c5 == [c4 EXCEPT !.big_endian = FALSE]
    IN  core_reload_pipeline(c5, mem)

(***************************************************************************)
(* The barrel shifter                                                      *)
(***************************************************************************)
\* The switch on the shift type with ROR #0 shifting a zero into bit 31
\* instead of the carry flag.
shift_by_type_rrx_no_carry(type, bits, value, carry) ==
    CASE type = 0 ->
            IF bits = 0
            THEN [value |-> value, carry_out |-> carry]
            ELSE LET v1 == Shl(value, bits - 1)
                 IN  [value |-> Shl(v1, 1), carry_out |-> Bit(Shr(v1, 31), 0)]
      [] type = 1 ->
            LET b == IF bits = 0 THEN 32 ELSE bits
                v1 == Shr(value, b - 1)
            IN  [value |-> Shr(v1, 1), carry_out |-> Bit(v1, 0)]
      [] type = 2 ->
            LET b == IF bits = 0 THEN 32 ELSE bits
                v1 == Sar(value, b - 1)
            IN  [value |-> Sar(v1, 1), carry_out |-> Bit(v1, 0)]
      [] type = 3 ->
            IF bits = 0
            THEN [value |-> Shr(value, 1), carry_out |-> Bit(value, 0)]
            ELSE [value |-> OrW(Shr(value, bits), Shl(value, 32 - bits)),
                  carry_out |-> Bit(Shr(value, bits - 1), 0)]

\* The switch of core_compute_shift on the shift type, for an amount `bits`
\* in 0..31: the shifted value and the carry out.
shift_by_type(type, bits, value, carry) ==
    CASE type = 0 ->
            IF bits = 0
            THEN [value |-> value, carry_out |-> carry]
            ELSE LET v1 == Shl(value, bits - 1)
                 IN  [value |-> Shl(v1, 1), carry_out |-> Bit(Shr(v1, 31), 0)]
      [] type = 1 ->
            LET b == IF bits = 0 THEN 32 ELSE bits
                v1 == Shr(value, b - 1)
            IN  [value |-> Shr(v1, 1), carry_out |-> Bit(v1, 0)]
      [] type = 2 ->
            LET b == IF bits = 0 THEN 32 ELSE bits
                v1 == Sar(value, b - 1)
            IN  [value |-> Sar(v1, 1), carry_out |-> Bit(v1, 0)]
      [] type = 3 ->
            IF bits = 0
            THEN [value |-> OrW(Shr(value, 1), Shl(FromNat(carry), 31)),
                  carry_out |-> Bit(value, 0)]
            ELSE [value |-> OrW(Shr(value, bits), Shl(value, 32 - bits)),
                  carry_out |-> Bit(Shr(value, bits - 1), 0)]

\* The register-specified amount: the low byte of registers[rs].
shift_register_bits(c, encoded_shift) ==
    BitsVal(c.registers[(encoded_shift \div 16) % 16], 0, 8)

\* core_compute_shift without the early return for a register amount of 0.
core_compute_shift_no_zero_return(c, encoded_shift, value, update_carry) ==
    LET register == (encoded_shift % 2) = 1
        bits == IF register
                THEN shift_register_bits(c, encoded_shift)
                ELSE (encoded_shift \div 8) % 32
        type == (encoded_shift \div 2) % 4
        r == shift_by_type(type, bits, value, c.cpsr.carry)
    IN  IF register /\ bits >= 32
        THEN [core |-> [c EXCEPT !.status = "unimplemented: unsupported shifts of more than 32 bits"],
              value |-> value]
        ELSE [core |-> IF update_carry THEN [c EXCEPT !.cpsr.carry = r.carry_out] ELSE c,
              value |-> r.value]

\* core_compute_shift: the core after the call and the value returned.
\* encoded_shift is bits 4..11 of the instruction, a number in 0..255.
core_compute_shift(c, encoded_shift, value, update_carry) ==
    LET register == (encoded_shift % 2) = 1
        bits == IF register
                THEN shift_register_bits(c, encoded_shift)
                ELSE (encoded_shift \div 8) % 32
        type == (encoded_shift \div 2) % 4
        r == shift_by_type(type, bits, value, c.cpsr.carry)
    IN  IF register /\ bits = 0
        THEN [core |-> c, value |-> value]
        ELSE IF register /\ bits >= 32
        THEN [core |-> [c EXCEPT !.status = "unimplemented: unsupported shifts of more than 32 bits"],
              value |-> value]
        ELSE [core |-> IF update_carry THEN [c EXCEPT !.cpsr.carry = r.carry_out] ELSE c,
              value |-> r.value]

(***************************************************************************)
(* The executors. Their code is not part of the sources at hand; they are  *)
(* modelled from the specification's description of each class.            *)
(***************************************************************************)
\* a rotated right by n, 0 <= n < 32.
RorW(a, n) == IF n = 0 THEN a ELSE OrW(Shr(a, n), Shl(a, WordBits - n))

\* Branch (B / BL): the 24-bit signed offset, shifted left 2, is added to PC;
\* BL writes the return address to r14; the write to r15 reloads the pipeline.
core_arm_branch(c, mem, op) ==
    LET offset == Shl(W(BitsVal(op, 16, 24) + (IF Bit(op, 23) = 1 THEN 65280 ELSE 0), op.lo), 2)
        c1 == IF Bit(op, 24) = 1
              THEN [c EXCEPT !.registers[14] = AddW(r15(c), NotW(FromNat(3)))]
              ELSE c
        c2 == [c1 EXCEPT !.registers[15] = AddW(r15(c), offset)]
    IN  core_reload_pipeline(c2, mem)

\* Branch and exchange (BX): if bit 0 of the target is 1, switch to Thumb and
\* clear bit 0; then PC = target, and the pipeline is reloaded.
core_arm_branchxchg(c, mem, op) ==
    LET target == c.registers[BitsVal(op, 0, 4)]
        c1 == [c EXCEPT !.cpsr.thumb = Bit(target, 0),
                        !.registers[15] = W(target.hi, target.lo - Bit(target, 0))]
    IN  core_reload_pipeline(c1, mem)

\* The ALU's additive operations: the sum, the carry out of bit 31 and the
\* signed overflow.
alu_add(a, b, cin) ==
    LET r == AddC(a, b, cin)
    IN  [value |-> r.sum, carry |-> r.carry,
         overflow |-> IF Bit(a, 31) = Bit(b, 31) /\ Bit(r.sum, 31) # Bit(a, 31) THEN 1 ELSE 0]

\* Data processing: the second operand is an immediate (8 bits rotated right by
\* twice the 4-bit amount) or a shifted register; the S bit updates the flags;
\* TST, TEQ, CMP and CMN write no register; a write to r15 reloads the pipeline.
core_arm_data_processing(c, mem, op) ==
    LET opcode == BitsVal(op, 21, 25)
        s == Bit(op, 20) = 1
        logical == opcode \in {0, 1, 8, 9, 12, 13, 14, 15}
        rn == c.registers[BitsVal(op, 16, 20)]
        rd == BitsVal(op, 12, 16)
        shifted == IF Bit(op, 25) = 1
                   THEN [core |-> c,
                         value |-> RorW(FromNat(BitsVal(op, 0, 8)), 2 * BitsVal(op, 8, 12))]
                   ELSE core_compute_shift(c, BitsVal(op, 4, 12),
                                           c.registers[BitsVal(op, 0, 4)], s /\ logical)
        alu(sh) ==
            LET op2 == sh.value
                cin == c.cpsr.carry
                keep == [carry |-> sh.core.cpsr.carry, overflow |-> sh.core.cpsr.overflow]
            IN  CASE opcode \in {0, 8}  -> [value |-> AndW(rn, op2)] @@ keep
                  [] opcode \in {1, 9}  -> [value |-> XorW(rn, op2)] @@ keep
                  [] opcode \in {2, 10} -> alu_add(rn, NotW(op2), 1)
                  [] opcode = 3         -> alu_add(op2, NotW(rn), 1)
                  [] opcode \in {4, 11} -> alu_add(rn, op2, 0)
                  [] opcode = 5         -> alu_add(rn, op2, cin)
                  [] opcode = 6         -> alu_add(rn, NotW(op2), cin)
                  [] opcode = 7         -> alu_add(op2, NotW(rn), cin)
                  [] opcode = 12        -> [value |-> OrW(rn, op2)] @@ keep
                  [] opcode = 13        -> [value |-> op2] @@ keep
                  [] opcode = 14        -> [value |-> AndW(rn, NotW(op2))] @@ keep
                  [] opcode = 15        -> [value |-> NotW(op2)] @@ keep
        write(sh, r) ==
            LET c1 == sh.core
                c2 == IF s
                      THEN [c1 EXCEPT !.cpsr.negative = Bit(r.value, 31),
                                      !.cpsr.zero = IF r.value = Zero32 THEN 1 ELSE 0,
                                      !.cpsr.carry = r.carry,
                                      !.cpsr.overflow = r.overflow]
                      ELSE c1
                c3 == IF opcode \in 8..11 THEN c2 ELSE [c2 EXCEPT !.registers[rd] = r.value]
            IN  IF c1.status # "running" THEN c1
                ELSE IF rd = 15 /\ opcode \notin 8..11 THEN core_reload_pipeline(c3, mem)
                ELSE c3
    IN  The({The({write(sh, r) : r \in {alu(sh)}}) : sh \in {shifted}})

(***************************************************************************)
(* core_step                                                               *)
(***************************************************************************)
\* The condition switch with no instruction ever skipped.
can_exec_always(cond, cpsr) == TRUE

\* The condition switch with COND_LS taken as !carry && zero.
can_exec_ls_and(cond, cpsr) ==
    CASE cond = 0  -> cpsr.zero = 1
      [] cond = 1  -> cpsr.zero # 1
      [] cond = 2  -> cpsr.carry = 1
      [] cond = 3  -> cpsr.carry # 1
      [] cond = 4  -> cpsr.negative = 1
      [] cond = 5  -> cpsr.negative # 1
      [] cond = 6  -> cpsr.overflow = 1
      [] cond = 7  -> cpsr.overflow # 1
      [] cond = 8  -> cpsr.carry = 1 /\ cpsr.zero # 1
      [] cond = 9  -> cpsr.carry # 1 /\ cpsr.zero = 1
      [] cond = 10 -> cpsr.negative = cpsr.overflow
      [] cond = 11 -> cpsr.negative # cpsr.overflow
      [] cond = 12 -> cpsr.zero # 1 /\ cpsr.negative = cpsr.overflow
      [] cond = 13 -> cpsr.zero = 1 \/ cpsr.negative # cpsr.overflow
      [] cond = 14 -> TRUE

\* The condition switch of core_step_arm: can_exec for the condition codes
\* COND_EQ (0) .. COND_AL (14). Code 15 has no case (see cond_known).
can_exec(cond, cpsr) ==
    CASE cond = 0  -> cpsr.zero = 1
      [] cond = 1  -> cpsr.zero # 1
      [] cond = 2  -> cpsr.carry = 1
      [] cond = 3  -> cpsr.carry # 1
      [] cond = 4  -> cpsr.negative = 1
      [] cond = 5  -> cpsr.negative # 1
      [] cond = 6  -> cpsr.overflow = 1
      [] cond = 7  -> cpsr.overflow # 1
      [] cond = 8  -> cpsr.carry = 1 /\ cpsr.zero # 1
      [] cond = 9  -> cpsr.carry # 1 \/ cpsr.zero = 1
      [] cond = 10 -> cpsr.negative = cpsr.overflow
      [] cond = 11 -> cpsr.negative # cpsr.overflow
      [] cond = 12 -> cpsr.zero # 1 /\ cpsr.negative = cpsr.overflow
      [] cond = 13 -> cpsr.zero = 1 \/ cpsr.negative # cpsr.overflow
      [] cond = 14 -> TRUE

\* The condition codes the switch has a case for; the default case panics.
cond_known(cond) == cond \in 0..14

\* The decoding switch of core_step_arm: the executor a word is handed to, or
\* the panic it ends in. msr_first is the value of the first conjunct of the
\* MSR and MSRF tests, bitfield_get_range(op, 23, 25 == 0b10), whose third
\* argument is the constant 0.
arm_dispatch(op, msr_first) ==
    LET class == bitfield_get_range(op, 25, 28)
    IN  CASE class \in {0, 1} ->
                IF bitfield_get_range(op, 4, 28) = 1245169 THEN "branchxchg"
                ELSE IF bitfield_get_range(op, 23, 25) = 2
                        /\ bitfield_get_range(op, 16, 22) = 15 THEN "mrs"
                ELSE IF msr_first /\ bitfield_get_range(op, 12, 22) = 671 THEN "msr"
                ELSE IF msr_first /\ bitfield_get_range(op, 12, 22) = 655 THEN "msrf"
                ELSE IF ~bitfield_get(op, 4) \/ ~bitfield_get(op, 7) THEN "data_processing"
                ELSE IF bitfield_get_range(op, 22, 24) = 0 THEN "mul"
                ELSE "panic: Unknown instruction"
          [] class \in {2, 3} ->
                IF bitfield_get(op, 25) /\ bitfield_get(op, 4)
                THEN "panic: Undefined state"
                ELSE "sdt"
          [] class = 5 -> "branch"
          [] OTHER -> "panic: Unknown instruction"

\* The panics of core_step_arm.
Panics == {"panic: Unknown cond", "panic: Unknown instruction", "panic: Undefined state"}

\* The executors the model holds.
Modelled == {"branch", "branchxchg", "data_processing"}

\* The call of the executor arm_dispatch chose; a panic ends the process.
arm_execute(c, mem, op, exec) ==
    CASE exec = "branch" -> core_arm_branch(c, mem, op)
      [] exec = "branchxchg" -> core_arm_branchxchg(c, mem, op)
      [] exec = "data_processing" -> core_arm_data_processing(c, mem, op)
      [] OTHER -> [c EXCEPT !.status = exec]

\* The head of core_step_arm with the two statements swapped: r15 advances
\* and the latch is refilled from the new r15.
arm_fetch_advance_first(c, mem) ==
    [c EXCEPT !.prefetch = core_bus_read32(mem, AddW(r15(c), FromNat(4))),
              !.prefetch_addr = AddW(r15(c), FromNat(4)),
              !.registers[15] = AddW(r15(c), FromNat(4))]

\* The head of core_step_arm: the latch is refilled from r15 and r15 advances.
arm_fetch(c, mem) ==
    [c EXCEPT !.prefetch = core_bus_read32(mem, r15(c)),
              !.prefetch_addr = r15(c),
              !.registers[15] = AddW(r15(c), FromNat(4))]

\* What core_step_arm does with the word op once fetched: "panic", "skip" or
\* the outcome of arm_dispatch.
arm_decision(op, cpsr, msr_first) ==
    IF ~cond_known(BitsVal(op, 28, 32)) THEN "panic: Unknown cond"
    ELSE IF ~can_exec(BitsVal(op, 28, 32), cpsr) THEN "skip"
    ELSE arm_dispatch(op, msr_first)

\* core_step_arm.
core_step_arm(c, mem, msr_first) ==
    LET op == c.prefetch
        decode(c1) ==
            LET d == arm_decision(op, c1.cpsr, msr_first)
            IN  IF d = "skip" THEN c1 ELSE arm_execute(c1, mem, op, d)
    IN  The({decode(c1) : c1 \in {arm_fetch(c, mem)}})

\* core_step_thumb.
core_step_thumb(c) ==
    [c EXCEPT !.status = "unimplemented: Thumb mode isn't implemented (yet)."]

\* core_step.
core_step(c, mem, msr_first) ==
    IF c.cpsr.thumb = 1 THEN core_step_thumb(c) ELSE core_step_arm(c, mem, msr_first)

(***************************************************************************)
(* Programs                                                                *)
(***************************************************************************)
\* The instruction word with condition field cond and low 28 bits low.
Enc(cond, low) == W(cond * 4096 + low \div Half, low % Half)

\* The words the modelled memory is filled with.
InstrSample ==
    { Enc(14, 61865984),    \* E3B00000  MOVS r0, #0
      Enc(1,  42012673),    \* 12811001  ADDNE r1, r1, #1
      Enc(14, 38731777),    \* E24F0001  SUB r0, pc, #1
      Enc(14, 19922704),    \* E12FFF10  BX r0
      Enc(0,  184549373),   \* 0AFFFFFD  BEQ .-4
      Enc(15, 0),           \* F0000000  condition code 0xF
      Enc(14, 251658240) }  \* EF000000  SWI 0

(***************************************************************************)
(* The state machine                                                       *)
(***************************************************************************)
VARIABLES
    core,       \* struct core
    memory,     \* the words at MemBase, MemBase + 4, ...
    ops,        \* the number of host operations so far
    last,       \* the last operation, and for a step what core_step_arm did
    shift_in,   \* the arguments of a call of core_compute_shift, if one is made
    shift_out,  \* the value that call returned
    bus,        \* an address handed to the address decoder, and its offset
    gba         \* struct gba: the GPIO block and the game's database entry

vars == <<core, memory, ops, last, shift_in, shift_out, bus, gba>>

NoShift == /\ shift_in = <<>>
           /\ shift_out = <<>>

\* No address is being decoded and no GPIO block is attached.
NoBus == bus = <<>>

NoGpio == gba = <<>>

Init ==
    /\ memory \in [MemIdx -> InstrSample]
    /\ core = core_reset(CoreZero, memory)
    /\ ops = 0
    /\ last = [kind |-> "reset", prev_cpsr |-> CpsrZero, prev_r0 |-> Zero32]
    /\ NoShift
    /\ NoBus
    /\ NoGpio

\* The host calls core_reset.
Reset ==
    /\ core.status = "running"
    /\ ops < MaxOps
    /\ core' = core_reset(core, memory)
    /\ ops' = ops + 1
    /\ last' = [kind |-> "reset", prev_cpsr |-> core.cpsr, prev_r0 |-> core.registers[0]]
    /\ UNCHANGED <<memory, shift_in, shift_out, bus, gba>>

\* The host calls core_step. The step is taken while the word about to be
\* executed lies in the modelled memory and its executor is modelled.
Step ==
    /\ core.status = "running"
    /\ ops < MaxOps
    /\ core.cpsr.thumb = 1 \/ InWindow(core.prefetch_addr)
    /\ \E msr_first \in BOOLEAN :
        LET d == arm_decision(core.prefetch, core.cpsr, msr_first)
        IN  /\ core.cpsr.thumb = 1 \/ d \in Modelled \/ d = "skip" \/ d \in Panics
            /\ core' = core_step(core, memory, msr_first)
            /\ last' = IF core.cpsr.thumb = 1
                       THEN [kind |-> "step_thumb"]
                       ELSE [kind |-> "step_arm", op |-> core.prefetch,
                             op_addr |-> core.prefetch_addr,
                             exec_pc |-> r15(arm_fetch(core, memory)),
                             decision |-> d]
    /\ ops' = ops + 1
    /\ UNCHANGED <<memory, shift_in, shift_out, bus, gba>>

\* r15 is written with the address of word k and core_reload_pipeline is called.
WritePC ==
    /\ core.status = "running"
    /\ ops < MaxOps
    /\ \E k \in MemIdx :
        /\ core' = core_reload_pipeline([core EXCEPT !.registers[15] = AddrOf(k)], memory)
        /\ last' = [kind |-> "write_pc", addr |-> AddrOf(k), old_prefetch |-> core.prefetch]
    /\ ops' = ops + 1
    /\ UNCHANGED <<memory, shift_in, shift_out, bus, gba>>

Next == Reset \/ Step \/ WritePC

Spec == Init /\ [][Next]_vars

(***************************************************************************)
(* Properties                                                              *)
(***************************************************************************)
\* The core has just been reset.
JustReset == last.kind = "reset"

\* The registers r0-r14 are all zero.
LowRegistersZero == \A r \in 0..14 : core.registers[r] = Zero32

\* CPSR has mode System, T = 0 and N, Z, C, V, I, F clear.
CpsrAfterReset == core.cpsr = [CpsrZero EXCEPT !.mode = "MODE_SYSTEM"]

\* C1 as stated: after core_reset, from any prior core state, r0-r14 are zero,
\* CPSR has mode System with T and the flags clear, and r15 = 0x08000000.
C1_ResetPcAtEntry ==
    JustReset => /\ LowRegistersZero
                 /\ CpsrAfterReset
                 /\ r15(core) = FromNat(MemBase)

\* C1 amended: after core_reset, from any prior core state, r0-r14 are zero,
\* CPSR has mode System with T and the flags clear, the prefetch latch holds
\* the word at 0x08000000 and r15 = 0x08000004, one instruction past it.
C1_ResetState ==
    JustReset => /\ LowRegistersZero
                 /\ CpsrAfterReset
                 /\ core.prefetch = memory[0]
                 /\ r15(core) = W(2048, 4)

\* A reset of a core that was in Thumb state with a non-zero r0.
C1_Witness ==
    /\ JustReset
    /\ last.prev_cpsr.thumb = 1
    /\ last.prev_r0 # Zero32

\* The step just taken was an ARM step (core_step_arm ran).
ArmStepTaken == last'.kind = "step_arm" /\ ops' = ops + 1

\* The condition field of a word.
CondOf(op) == BitsVal(op, 28, 32)

\* The ARM condition predicates over N, Z, C, V, for the codes 0x0-0xE.
ArmPredicate(cond, n, z, c, v) ==
    CASE cond = 0  -> z
      [] cond = 1  -> ~z
      [] cond = 2  -> c
      [] cond = 3  -> ~c
      [] cond = 4  -> n
      [] cond = 5  -> ~n
      [] cond = 6  -> v
      [] cond = 7  -> ~v
      [] cond = 8  -> c /\ ~z
      [] cond = 9  -> ~c \/ z
      [] cond = 10 -> n = v
      [] cond = 11 -> n # v
      [] cond = 12 -> ~z /\ (n = v)
      [] cond = 13 -> z \/ (n # v)
      [] cond = 14 -> TRUE

\* The ARM predicate of a word's condition field holds of a status word.
ConditionHolds(op, cpsr) ==
    ArmPredicate(CondOf(op), cpsr.negative = 1, cpsr.zero = 1, cpsr.carry = 1, cpsr.overflow = 1)

\* The word is a branch (bits 27-25 = 101).
IsBranchWord(op) == BitsVal(op, 25, 28) = 5

\* The word is BX (bits 27-4 = 0x12FFF1).
IsBxWord(op) == BitsVal(op, 4, 28) = 1245169

\* The word is ADD r1, r1, #1 under some condition.
IsAddR1(op) == BitsVal(op, 0, 28) = 42012673

\* The word is SUB r0, pc, #1 under some condition.
IsSubR0Pc(op) == BitsVal(op, 0, 28) = 38731777

\* The signed 24-bit offset of a branch word, shifted left by 2.
BranchOffset(op) ==
    IF Bit(op, 23) = 1
    THEN W(64512 + BitsVal(op, 14, 24), (4 * op.lo) % Half)
    ELSE W(BitsVal(op, 14, 24), (4 * op.lo) % Half)

\* C2: in ARM state every core_step executes the word that was in the prefetch
\* latch, refills the latch with the word read at the old r15 and advances r15
\* by 4 before the condition is tested and the word decoded: a step that skips
\* its word, and one that executes a word writing no r15, both leave the latch
\* holding the word at the old r15 and r15 four higher; a taken branch lands
\* at old r15 + 4 + offset, the offset being that of the word taken from the
\* latch.
C2_FetchOrder ==
    [][ArmStepTaken =>
          LET op == core.prefetch
          IN  /\ (CondOf(op) # 15 /\ ~IsBranchWord(op) /\ ~IsBxWord(op)
                  /\ core'.status = "running")
                    => /\ core'.prefetch = core_bus_read32(memory, r15(core))
                       /\ r15(core') = AddW(r15(core), FromNat(4))
              /\ (CondOf(op) # 15 /\ IsBranchWord(op) /\ ConditionHolds(op, core.cpsr))
                    => core'.prefetch_addr
                         = AddW(AddW(r15(core), FromNat(4)), BranchOffset(op))
              /\ (CondOf(op) # 15 /\ IsBranchWord(op) /\ ~ConditionHolds(op, core.cpsr))
                    => /\ core'.prefetch = core_bus_read32(memory, r15(core))
                       /\ r15(core') = AddW(r15(core), FromNat(4))]_vars

\* An ARM step skipped ADDNE (Z was set) after the latch had been refilled
\* with a different word than the one skipped.
C2_Witness ==
    /\ last.kind = "step_arm"
    /\ last.decision = "skip"
    /\ core.prefetch # last.op
    /\ core.prefetch_addr = AddW(last.op_addr, FromNat(4))

\* C3: in ARM state, after any sequence of core_reset, core_step and PC
\* writes followed by core_reload_pipeline, an instruction fetched from
\* address X is executed with r15 = X + 8, and between steps the prefetch
\* latch holds the word at r15 - 4.
C3_PipelineOffset ==
    /\ (last.kind = "step_arm" /\ last.decision # "skip")
          => last.exec_pc = AddW(last.op_addr, FromNat(8))
    /\ (core.cpsr.thumb = 0 /\ core.status = "running")
          => /\ r15(core) = AddW(core.prefetch_addr, FromNat(4))
             /\ core.prefetch = core_bus_read32(memory, core.prefetch_addr)
    /\ (last.kind = "step_arm" /\ last.decision = "data_processing"
        /\ IsSubR0Pc(last.op))
          => core.registers[0] = AddW(last.op_addr, FromNat(7))

\* SUB r0, pc, #1 was executed from the second word of memory, reached by a
\* PC write or a branch: r0 shows the r15 it read.
C3_Witness ==
    /\ last.kind = "step_arm"
    /\ last.decision = "data_processing"
    /\ IsSubR0Pc(last.op)
    /\ last.op_addr = AddrOf(1)
    /\ core.registers[0] = W(2048, 11)

\* A core_step was just taken, in either state.
StepTaken == last'.kind \in {"step_arm", "step_thumb"} /\ ops' = ops + 1

\* r15 was just written and core_reload_pipeline called.
PcWritten == last'.kind = "write_pc" /\ ops' = ops + 1

\* C4: after r15 is written with address A and core_reload_pipeline is called,
\* the latch holds the word (half-word in Thumb state) at A and r15 = A + 4
\* (A + 2 in Thumb state), and the next core_step executes the word stored at
\* A: it is an executing step, in either state, and in ARM state the word it
\* takes is the one at A.
C4_NextStepExecutesTarget ==
    [][/\ PcWritten =>
            IF core'.cpsr.thumb = 1
            THEN /\ core'.prefetch = core_bus_read16(memory, last'.addr)
                 /\ r15(core') = AddW(last'.addr, FromNat(2))
            ELSE /\ core'.prefetch = core_bus_read32(memory, last'.addr)
                 /\ r15(core') = AddW(last'.addr, FromNat(4))
       /\ (last.kind = "write_pc" /\ StepTaken) =>
            /\ core'.status # "unimplemented: Thumb mode isn't implemented (yet)."
            /\ last'.kind = "step_arm"
            /\ last'.op = core_bus_read32(memory, last.addr)]_vars

\* C4 in ARM state only: after r15 is written with A and the pipeline reloaded
\* the latch holds the word at A, r15 = A + 4, and the next core_step takes
\* the word at A: a branch among them lands at A + 8 + its offset.
C4_ArmReload ==
    [][/\ (PcWritten /\ core'.cpsr.thumb = 0) =>
            /\ core'.prefetch = core_bus_read32(memory, last'.addr)
            /\ r15(core') = AddW(last'.addr, FromNat(4))
       /\ (last.kind = "write_pc" /\ StepTaken /\ core.cpsr.thumb = 0) =>
            LET op == core_bus_read32(memory, last.addr)
            IN  /\ last'.op = op
                /\ (IsBranchWord(op) /\ CondOf(op) # 15 /\ ConditionHolds(op, core.cpsr))
                     => core'.prefetch_addr
                          = AddW(AddW(last.addr, FromNat(8)), BranchOffset(op))]_vars

\* C5: when the condition predicate of the ARM word in the latch is false,
\* core_step changes nothing but the latch, refilled from the old r15, and
\* r15, advanced by 4: r0-r14, CPSR and memory are unchanged.
C5_SkipFrame ==
    [][(ArmStepTaken /\ CondOf(core.prefetch) \in 0..14
        /\ ~ConditionHolds(core.prefetch, core.cpsr)) =>
          /\ \A r \in 0..14 : core'.registers[r] = core.registers[r]
          /\ core'.cpsr = core.cpsr
          /\ memory' = memory
          /\ core'.status = core.status
          /\ core'.big_endian = core.big_endian
          /\ core'.prefetch = core_bus_read32(memory, r15(core))
          /\ r15(core') = AddW(r15(core), FromNat(4))]_vars

\* ADDNE r1, r1, #1 was skipped with Z set: r1 is still zero.
C5_Witness ==
    /\ last.kind = "step_arm"
    /\ IsAddR1(last.op)
    /\ CondOf(last.op) = 1
    /\ core.cpsr.zero = 1
    /\ core.registers[1] = Zero32
    /\ core.prefetch_addr = AddW(last.op_addr, FromNat(4))

\* C6: for every condition code 0x0-0xE and every N, Z, C, V, core_step_arm
\* executes the word exactly when the ARM predicate of its code holds:
\* ADD<cond> r1, r1, #1 reaches the data-processing executor and adds 1 to
\* r1 when it holds, and is skipped and leaves r1 alone when it does not.
C6_ConditionTable ==
    [][(ArmStepTaken /\ IsAddR1(core.prefetch) /\ CondOf(core.prefetch) \in 0..14) =>
          IF ConditionHolds(core.prefetch, core.cpsr)
          THEN /\ last'.decision = "data_processing"
               /\ core'.registers[1] = AddW(core.registers[1], FromNat(1))
          ELSE /\ last'.decision = "skip"
               /\ core'.registers[1] = core.registers[1]]_vars

\* ADDGT was executed with N = V = 1 and Z = 0, and ADDLS skipped with C = 1
\* and Z = 0, are among the cases; this is the first.
C6_Witness ==
    /\ last.kind = "step_arm"
    /\ CondOf(last.op) = 12
    /\ core.cpsr.negative = 1
    /\ core.cpsr.overflow = 1
    /\ core.cpsr.zero = 0
    /\ core.registers[1] = FromNat(1)

\* C7: no value of the condition field, 0xF included, halts the core:
\* core_step executes or skips the word.
C7_NoConditionHalt == core.status # "panic: Unknown cond"

(***************************************************************************)
(* The condition switch on its own: one word under every N, Z, C, V        *)
(***************************************************************************)
\* Memory is filled with ADD<cond> r1, r1, #1 for one condition code, and the
\* core is at the entry point with some combination of the flags.
InitCond ==
    /\ \E cond \in 0..15 : memory = [k \in MemIdx |-> Enc(cond, 42012673)]
    /\ \E n \in {0, 1}, z \in {0, 1}, c \in {0, 1}, v \in {0, 1} :
          core = [core_reset(CoreZero, memory) EXCEPT !.cpsr.negative = n,
                                                      !.cpsr.zero = z,
                                                      !.cpsr.carry = c,
                                                      !.cpsr.overflow = v]
    /\ ops = 0
    /\ last = [kind |-> "reset", prev_cpsr |-> CpsrZero, prev_r0 |-> Zero32]
    /\ NoShift
    /\ NoBus
    /\ NoGpio

NextCond == Step

SpecCond == InitCond /\ [][NextCond]_vars

(***************************************************************************)
(* The decoding switch on its own: one core_step on a word of any class    *)
(***************************************************************************)
\* The word with condition cond, bits 27-20 = a, and the nibbles rn (bits
\* 19-16), rd (15-12), rs (11-8), m (7-4) and rm (3-0).
Word(cond, a, rn, rd, rs, m, rm) ==
    W(cond * 4096 + a * 16 + rn, rd * 4096 + rs * 256 + m * 16 + rm)

\* The word to decode lies at the entry point of a core just reset. The
\* words decoded: every value of bits 27-20 (class, opcode, S) and of bits
\* 7-4, under condition AL, with register fields that cover BX (bits 19-8
\* all ones), MRS (bits 19-16 = 1111), MSR and MSRF (bits 19-12 = 1001 1111
\* and 1000 1111) and the immediates 0x_0, 0x_F.
InitDecode ==
    /\ \E a \in 0..255, rn \in {0, 8, 9, 15}, rd \in {0, 15}, rs \in {0, 15},
          m \in 0..15, rm \in {0, 15} :
            memory = [k \in MemIdx |-> Word(14, a, rn, rd, rs, m, rm)]
    /\ core = core_reset(CoreZero, memory)
    /\ ops = 0
    /\ last = [kind |-> "reset", prev_cpsr |-> CpsrZero, prev_r0 |-> Zero32]
    /\ NoShift
    /\ NoBus
    /\ NoGpio

\* The host calls core_step once, whatever the word in the latch: the step is
\* followed up to the call of the executor, and through it when the model
\* holds the executor.
StepAny ==
    /\ core.status = "running"
    /\ ops = 0
    /\ core.cpsr.thumb = 0
    /\ \E msr_first \in BOOLEAN :
        /\ core' = core_step(core, memory, msr_first)
        /\ last' = [kind |-> "step_arm", op |-> core.prefetch,
                    op_addr |-> core.prefetch_addr,
                    exec_pc |-> r15(arm_fetch(core, memory)),
                    decision |-> arm_decision(core.prefetch, core.cpsr, msr_first)]
    /\ ops' = ops + 1
    /\ UNCHANGED <<memory, shift_in, shift_out, bus, gba>>

NextDecode == StepAny

SpecDecode == InitDecode /\ [][NextDecode]_vars

(***************************************************************************)
(* core_run: the host hands the core over and waits for the return         *)
(***************************************************************************)
\* The host calls core_run on a core just reset.
InitRun ==
    /\ memory \in [MemIdx -> InstrSample]
    /\ core = core_reset(CoreZero, memory)
    /\ ops = 0
    /\ last = [kind |-> "run", returned |-> FALSE]
    /\ NoShift
    /\ NoBus
    /\ NoGpio

\* One turn of the loop of core_run: `while (true) core_step(core)`. The loop
\* has no exit and core_run no return statement, so no turn sets returned.
\* The run is followed while the word about to be executed lies in the
\* modelled memory and its executor is modelled.
RunStep ==
    /\ last.kind = "run"
    /\ core.status = "running"
    /\ core.cpsr.thumb = 1 \/ InWindow(core.prefetch_addr)
    /\ \E msr_first \in BOOLEAN :
        LET d == arm_decision(core.prefetch, core.cpsr, msr_first)
        IN  /\ core.cpsr.thumb = 1 \/ d \in Modelled \/ d = "skip" \/ d \in Panics
            /\ core' = core_step(core, memory, msr_first)
    /\ last' = [kind |-> "run", returned |-> FALSE]
    /\ UNCHANGED <<memory, ops, shift_in, shift_out, bus, gba>>

NextRun == RunStep

\* The loop is sequential code: while a turn can be taken, it is taken.
SpecRun == InitRun /\ [][NextRun]_vars /\ WF_vars(RunStep)

(***************************************************************************)
(* The memory map: a region's window, mask and backing array               *)
(***************************************************************************)
\* enum memory_regions and struct memory: for every region with a backing
\* array its window start..end, the mask the enumeration computes for it
\* (<REGION>_END - <REGION>_START; CART_MASK for the three ROM windows) and
\* the size of its array in struct memory.
Regions ==
    { [name |-> "BIOS",   start |-> 0,         end |-> 16383,
       mask |-> 16383 - 0,                     size |-> 16384],      \* 0x4000
      [name |-> "EWRAM",  start |-> 33554432,  end |-> 33816575,
       mask |-> 33816575 - 33554432,           size |-> 262144],     \* 0x40000
      [name |-> "IWRAM",  start |-> 50331648,  end |-> 50364415,
       mask |-> 50364415 - 50331648,           size |-> 32768],      \* 0x8000
      [name |-> "PALRAM", start |-> 83886080,  end |-> 83887103,
       mask |-> 83887103 - 83886080,           size |-> 1024],       \* 0x400
      [name |-> "VRAM",   start |-> 100663296, end |-> 100761599,
       mask |-> 100761599 - 100663296,         size |-> 98304],      \* 0x18000
      [name |-> "OAM",    start |-> 117440512, end |-> 117441535,
       mask |-> 117441535 - 117440512,         size |-> 1024],       \* 0x400
      [name |-> "CART_0", start |-> 134217728, end |-> 167772159,
       mask |-> 167772159 - 134217728,         size |-> 33554432],   \* 0x2000000
      [name |-> "CART_1", start |-> 167772160, end |-> 201326591,
       mask |-> 167772159 - 134217728,         size |-> 33554432],
      [name |-> "CART_2", start |-> 201326592, end |-> 234881023,
       mask |-> 167772159 - 134217728,         size |-> 33554432],
      [name |-> "CART_SRAM", start |-> 234881024, end |-> 234946559,
       mask |-> 234946559 - 234881024,         size |-> 65536] }     \* 0x10000

\* The addresses of a region: the ones sharing the top byte (the top seven
\* bits for a ROM window) of its start, base window and mirrors alike.
RegionSpan(r) == IF r.size = 33554432 THEN 33554432 ELSE 16777216

\* The offsets from a region's start at which addresses are decoded: around
\* every power of two a window ends at, and the last address of the span.
BusOffsets ==
    { 0, 1, 1023, 1024, 1025, 16383, 16384, 32767, 32768, 32769, 49151, 65535,
      65536, 65537, 98303, 98304, 131071, 163839, 196607, 262143, 262144,
      16777215, 33554431 }

\* C's a & b on two addresses.
AndAddr(a, b) == AndN(a, b, WordBits)

\* The offset into the backing array the address decoder gives an address of
\* region r: addr & MASK.
mem_offset(r, addr) == AndAddr(addr, r.mask)

InitBus ==
    /\ memory = [k \in MemIdx |-> Enc(14, 61865984)]
    /\ core = core_reset(CoreZero, memory)
    /\ ops = 0
    /\ last = [kind |-> "reset", prev_cpsr |-> CpsrZero, prev_r0 |-> Zero32]
    /\ NoShift
    /\ NoGpio
    /\ \E r \in Regions, o \in BusOffsets :
          /\ o < RegionSpan(r)
          /\ bus = << [region |-> r, addr |-> r.start + o] >>

\* The address decoder maps the address to its offset in the region.
DecodeAddress ==
    /\ bus # <<>>
    /\ Len(bus) = 1
    /\ bus' = Append(bus, [offset |-> mem_offset(bus[1].region, bus[1].addr)])
    /\ UNCHANGED <<core, memory, ops, last, shift_in, shift_out, gba>>

NextBus == DecodeAddress

SpecBus == InitBus /\ [][NextBus]_vars

(***************************************************************************)
(* The GPIO block of the cartridge                                         *)
(***************************************************************************)
\* The addresses gpio_read_u8 and gpio_write_u8 are called with: the three
\* registers their switches name, and any other address.
GpioAddrs == {"GPIO_REG_DATA", "GPIO_REG_DIRECTION", "GPIO_REG_CTRL", "OTHER"}

\* The bytes written.
GpioBytes == {0, 1, 2, 3, 254, 255}

\* gba->game_entry: null (present is FALSE and there are no flags to read),
\* or the database entry of a game without FLAGS_RTC, or of one with it.
NullEntry == [present |-> FALSE, flags_rtc |-> FALSE]

GameEntries ==
    {NullEntry, [present |-> TRUE, flags_rtc |-> FALSE], [present |-> TRUE, flags_rtc |-> TRUE]}

\* What a read of gba->game_entry->flags gives. Through a null game_entry it
\* is undefined: the process ends in a fault, or the read yields some flags.
EntryFlags == {[fault |-> TRUE, rtc |-> FALSE],
               [fault |-> FALSE, rtc |-> FALSE],
               [fault |-> FALSE, rtc |-> TRUE]}

game_entry_flags(g, undefined) ==
    IF ~g.game_entry.present THEN undefined
    ELSE [fault |-> FALSE, rtc |-> g.game_entry.flags_rtc]

\* The record of a read of the flags: null_flags_read is a history field,
\* set when the flags of an absent game_entry are read.
read_flags(g, flags) ==
    [g EXCEPT !.null_flags_read = @ \/ ~g.game_entry.present,
              !.status = IF flags.fault THEN "segfault" ELSE @]

\* struct gpio after memset(&gba->gpio, 0, sizeof(gba->gpio)).
GpioZero == [read_write |-> 0, rtc |-> [enabled |-> FALSE, data |-> 0]]

\* gpio_rtc_init, gpio_rtc_write, gpio_rtc_read: the clock chip, which keeps
\* its state in gba->gpio.rtc.
gpio_rtc_init(g) == [g EXCEPT !.gpio.rtc.enabled = TRUE]

gpio_rtc_write(g, val) == [g EXCEPT !.gpio.rtc.data = val]

gpio_rtc_read(g) == g.gpio.rtc.data

\* gpio_init. The test of game_entry comes first: a null entry is not read.
gpio_init(g) ==
    LET g0 == [g EXCEPT !.gpio = GpioZero]
    IN  IF g.game_entry.present /\ g.game_entry.flags_rtc
        THEN gpio_rtc_init(g0)
        ELSE g0

\* gpio_read_u8: the core after the call and the byte returned (-1 when
\* the process ended in the call).
gpio_read_u8(g, addr, undefined) ==
    IF g.gpio.read_write = 0 THEN [gba |-> g, value |-> 0]
    ELSE CASE addr = "GPIO_REG_CTRL" -> [gba |-> g, value |-> g.gpio.read_write]
           [] addr = "GPIO_REG_DATA" ->
                LET flags == game_entry_flags(g, undefined)
                    g1 == read_flags(g, flags)
                IN  IF flags.fault THEN [gba |-> g1, value |-> -1]
                    ELSE IF flags.rtc THEN [gba |-> g1, value |-> gpio_rtc_read(g1)]
                    ELSE [gba |-> g1, value |-> 0]
           [] addr = "GPIO_REG_DIRECTION" -> [gba |-> g, value |-> 0]
           [] OTHER -> [gba |-> g, value |-> 0]

\* gpio_write_u8 with the byte stored whole in read_write.
gpio_write_u8_whole_byte(g, addr, val, undefined) ==
    CASE addr = "GPIO_REG_CTRL" -> [g EXCEPT !.gpio.read_write = val]
      [] addr = "GPIO_REG_DATA" ->
            LET flags == game_entry_flags(g, undefined)
                g1 == read_flags(g, flags)
            IN  IF ~flags.fault /\ flags.rtc THEN gpio_rtc_write(g1, val) ELSE g1
      [] OTHER -> g

\* gpio_write_u8.
gpio_write_u8(g, addr, val, undefined) ==
    CASE addr = "GPIO_REG_CTRL" -> [g EXCEPT !.gpio.read_write = val % 2]
      [] addr = "GPIO_REG_DATA" ->
            LET flags == game_entry_flags(g, undefined)
                g1 == read_flags(g, flags)
            IN  IF ~flags.fault /\ flags.rtc THEN gpio_rtc_write(g1, val) ELSE g1
      [] OTHER -> g

\* struct gba before gpio_init, with its history fields: the byte of the
\* most recent write to GPIO_REG_CTRL (-1 before any) and the last call.
GbaOf(entry) ==
    [game_entry |-> entry, gpio |-> GpioZero, status |-> "running",
     null_flags_read |-> FALSE, last_ctrl |-> -1, call |-> [kind |-> "init"]]

InitGpio ==
    /\ memory = [k \in MemIdx |-> Enc(14, 61865984)]
    /\ core = core_reset(CoreZero, memory)
    /\ ops = 0
    /\ last = [kind |-> "reset", prev_cpsr |-> CpsrZero, prev_r0 |-> Zero32]
    /\ NoShift
    /\ NoBus
    /\ \E entry \in GameEntries : gba = << gpio_init(GbaOf(entry)) >>

\* The bus calls gpio_write_u8.
GpioWrite ==
    /\ gba # <<>>
    /\ gba[1].status = "running"
    /\ \E addr \in GpioAddrs, val \in GpioBytes, undefined \in EntryFlags :
          gba' = << [gpio_write_u8(gba[1], addr, val, undefined) EXCEPT
                        !.last_ctrl = IF addr = "GPIO_REG_CTRL" THEN val ELSE @,
                        !.call = [kind |-> "write", addr |-> addr, val |-> val]] >>
    /\ UNCHANGED <<core, memory, ops, last, shift_in, shift_out, bus>>

\* The bus calls gpio_read_u8.
GpioRead ==
    /\ gba # <<>>
    /\ gba[1].status = "running"
    /\ \E addr \in GpioAddrs, undefined \in EntryFlags :
          LET r == gpio_read_u8(gba[1], addr, undefined)
          IN  gba' = << [r.gba EXCEPT
                            !.call = [kind |-> "read", addr |-> addr, value |-> r.value]] >>
    /\ UNCHANGED <<core, memory, ops, last, shift_in, shift_out, bus>>

NextGpio == GpioWrite \/ GpioRead

SpecGpio == InitGpio /\ [][NextGpio]_vars

(***************************************************************************)
(* The barrel shifter on its own: one call of core_compute_shift           *)
(***************************************************************************)
\* The values shifted.
ShiftValues ==
    { Zero32, Ones32, W(0, 1), W(32768, 0), W(32768, 1), W(16384, 2), W(4660, 22136) }

\* The registers that hold a register-specified amount.
ShiftRegs == {2}

\* The contents of the amount register: every low byte 0..33, and 255, 256
\* (low byte 0), 288 (low byte 32) and 511 (low byte 255).
ShiftRegValues == 0..33 \cup {255, 256, 288, 511}

\* The encoded shift: bit 0 says register or immediate, bits 1-2 the type,
\* bits 3-7 an immediate amount, bits 4-7 the amount register.
EncodeImmediate(type, n) == 8 * n + 2 * type

EncodeRegister(type, rs) == 16 * rs + 2 * type + 1

\* A call of core_compute_shift is about to be made: its arguments, and the
\* core with the carry flag and the amount register the call reads.
InitShift ==
    /\ memory = [k \in MemIdx |-> Enc(14, 61865984)]
    /\ ops = 0
    /\ last = [kind |-> "reset", prev_cpsr |-> CpsrZero, prev_r0 |-> Zero32]
    /\ shift_out = <<>>
    /\ NoBus
    /\ NoGpio
    /\ \E value \in ShiftValues, type \in 0..3, carry \in {0, 1}, uc \in BOOLEAN :
          \/ \E n \in 0..31 :
                /\ core = [core_reset(CoreZero, memory) EXCEPT !.cpsr.carry = carry]
                /\ shift_in = << [encoded_shift |-> EncodeImmediate(type, n), value |-> value,
                                  update_carry |-> uc, carry_in |-> carry, type |-> type,
                                  register |-> FALSE, amount |-> n] >>
          \/ \E rs \in ShiftRegs, a \in ShiftRegValues :
                /\ core = [core_reset(CoreZero, memory) EXCEPT !.cpsr.carry = carry,
                                                            !.registers[rs] = FromNat(a)]
                /\ shift_in = << [encoded_shift |-> EncodeRegister(type, rs), value |-> value,
                                  update_carry |-> uc, carry_in |-> carry, type |-> type,
                                  register |-> TRUE, amount |-> a % 256] >>

\* An executor calls core_compute_shift.
ComputeShift ==
    /\ shift_in # <<>>
    /\ shift_out = <<>>
    /\ LET in == shift_in[1]
           r == core_compute_shift(core, in.encoded_shift, in.value, in.update_carry)
       IN  /\ core' = r.core
           /\ shift_out' = << [returned |-> r.core.status = "running", value |-> r.value] >>
    /\ UNCHANGED <<memory, ops, last, shift_in, bus, gba>>

NextShift == ComputeShift

SpecShift == InitShift /\ [][NextShift]_vars

\* The call of core_compute_shift has been made.
ShiftCalled == shift_in # <<>> /\ shift_out # <<>>

\* Bit i of the ARM reference shifter's result for shift type `type` and an
\* encoded immediate amount n in 0..31 (LSR #0 and ASR #0 are LSR #32 and
\* ASR #32, ROR #0 is RRX), or a register amount n in 1..31.
RefBit(type, immediate, n, value, cin, i) ==
    LET m == IF immediate /\ n = 0 /\ type \in {1, 2} THEN 32 ELSE n
    IN  CASE type = 0 -> IF i >= m THEN Bit(value, i - m) ELSE 0
          [] type = 1 -> IF i + m <= 31 THEN Bit(value, i + m) ELSE 0
          [] type = 2 -> IF i + m <= 31 THEN Bit(value, i + m) ELSE Bit(value, 31)
          [] type = 3 -> IF m = 0
                         THEN (IF i = 31 THEN cin ELSE Bit(value, i + 1))
                         ELSE Bit(value, (i + m) % 32)

\* The carry out of the ARM reference shifter, for the same cases.
RefCarry(type, immediate, n, value, cin) ==
    LET m == IF immediate /\ n = 0 /\ type \in {1, 2} THEN 32 ELSE n
    IN  CASE type = 0 -> IF m = 0 THEN cin ELSE Bit(value, 32 - m)
          [] type \in {1, 2} -> Bit(value, m - 1)
          [] type = 3 -> IF m = 0 THEN Bit(value, 0) ELSE Bit(value, m - 1)

\* C8: for every value, shift type and immediate amount 0..31, and every
\* register-specified amount 1..31, core_compute_shift returns the result of
\* the ARM reference shifter, and with update_carry sets CPSR.C to its carry
\* out (without it CPSR.C is left alone): LSL #0 gives the value with the old
\* carry, LSR #0 and ASR #0 act as LSR #32 and ASR #32, ROR #0 as RRX.
C8_ShifterMatchesReference ==
    (ShiftCalled /\ (~shift_in[1].register \/ shift_in[1].amount \in 1..31)) =>
        LET in == shift_in[1]
            imm == ~in.register
        IN  /\ shift_out[1].returned
            /\ \A i \in 0..31 :
                  Bit(shift_out[1].value, i)
                    = RefBit(in.type, imm, in.amount, in.value, in.carry_in, i)
            /\ core.cpsr.carry
                 = IF in.update_carry
                   THEN RefCarry(in.type, imm, in.amount, in.value, in.carry_in)
                   ELSE in.carry_in

\* ROR #0 of 0x80000001 with C = 1 and update_carry: RRX gives 0xC0000000
\* and leaves C = 1 from bit 0.
C8_Witness ==
    /\ ShiftCalled
    /\ ~shift_in[1].register
    /\ shift_in[1].type = 3
    /\ shift_in[1].amount = 0
    /\ shift_in[1].value = W(32768, 1)
    /\ shift_in[1].carry_in = 1
    /\ shift_in[1].update_carry
    /\ shift_out[1].value = W(49152, 0)
    /\ core.cpsr.carry = 1

\* C9: when the amount is register-specified and the low byte of the register
\* is 0, core_compute_shift returns the value unchanged and leaves CPSR.C
\* (and the rest of the core) unchanged, for every shift type, with
\* update_carry true or false.
C9_RegisterAmountZero ==
    (ShiftCalled /\ shift_in[1].register /\ shift_in[1].amount = 0) =>
        /\ shift_out[1].returned
        /\ shift_out[1].value = shift_in[1].value
        /\ core.cpsr.carry = shift_in[1].carry_in
        /\ core.status = "running"

\* LSR by a register holding 0x100 (low byte 0), of 0x80000001 with C = 0 and
\* update_carry: the value comes back as it was and C stays 0 (LSR #32 would
\* give 0 and C = 1).
C9_Witness ==
    /\ ShiftCalled
    /\ shift_in[1].register
    /\ shift_in[1].type = 1
    /\ core.registers[2] = W(0, 256)
    /\ shift_in[1].update_carry
    /\ shift_in[1].carry_in = 0
    /\ shift_in[1].value = W(32768, 1)
    /\ shift_out[1].value = W(32768, 1)
    /\ core.cpsr.carry = 0

\* C10: for a register-specified amount of 32 or more (low byte 32..255)
\* core_compute_shift returns a defined result: 0 for LSL and LSR, the sign
\* fill for ASR, the rotation by the amount modulo 32 for ROR.
C10_RegisterAmountLarge ==
    (ShiftCalled /\ shift_in[1].register /\ shift_in[1].amount >= 32) =>
        LET in == shift_in[1]
        IN  /\ shift_out[1].returned
            /\ \A i \in 0..31 :
                  Bit(shift_out[1].value, i)
                    = CASE in.type \in {0, 1} -> 0
                        [] in.type = 2 -> Bit(in.value, 31)
                        [] in.type = 3 -> Bit(in.value, (i + in.amount) % 32)

(***************************************************************************)
(* Properties of the decoding switch                                       *)
(***************************************************************************)
\* The class of a word, its bits 27-25.
ClassOf(op) == BitsVal(op, 25, 28)

\* The word's condition is one of 0x0-0xE and its predicate holds.
ConditionPasses(op, cpsr) == CondOf(op) \in 0..14 /\ ConditionHolds(op, cpsr)

\* A word in the PSR-transfer space of the data-processing classes: the
\* opcodes TST, TEQ, CMP, CMN (bits 24-23 = 10) without the S bit.
IsPsrEncoding(op) == ClassOf(op) \in {0, 1} /\ BitsVal(op, 23, 25) = 2 /\ Bit(op, 20) = 0

\* A data-processing word with an immediate second operand.
IsImmediateDataProcessing(op) == ClassOf(op) = 1 /\ ~IsPsrEncoding(op)

\* A data-processing word with a register second operand: shifted by an
\* immediate (bit 4 = 0) or by a register (bit 4 = 1, bit 7 = 0).
IsRegisterDataProcessing(op) ==
    /\ ClassOf(op) = 0
    /\ ~IsPsrEncoding(op)
    /\ Bit(op, 4) = 0 \/ Bit(op, 7) = 0

\* MUL, MLA (bits 27-22 = 000000, bits 7-4 = 1001).
IsMultiply(op) == BitsVal(op, 22, 28) = 0 /\ BitsVal(op, 4, 8) = 9

\* UMULL, UMLAL, SMULL, SMLAL (bits 27-23 = 00001, bits 7-4 = 1001).
IsLongMultiply(op) == BitsVal(op, 23, 28) = 1 /\ BitsVal(op, 4, 8) = 9

\* LDRH, STRH, LDRSB, LDRSH (bits 27-25 = 000, bits 7 and 4 set, bits 6-5
\* not 00).
IsHalfwordTransfer(op) ==
    ClassOf(op) = 0 /\ Bit(op, 7) = 1 /\ Bit(op, 4) = 1 /\ BitsVal(op, 5, 7) # 0

\* LDR, STR (bits 27-26 = 01, not the undefined space of bits 25 and 4 set).
IsSingleTransfer(op) == BitsVal(op, 26, 28) = 1 /\ ~(Bit(op, 25) = 1 /\ Bit(op, 4) = 1)

\* LDM, STM (bits 27-25 = 100).
IsBlockTransfer(op) == ClassOf(op) = 4

\* SWI (bits 27-24 = 1111).
IsSwi(op) == BitsVal(op, 24, 28) = 15

\* The executors of the class a mandatory word belongs to; {} for a word of
\* no mandatory class. The code has no executor for long multiply, half-word
\* transfer, block transfer or SWI: their names here are the ones the
\* dispatch would have to give.
ExecutorsOfClass(op) ==
    IF IsBxWord(op) THEN {"branchxchg"}
    ELSE IF IsBranchWord(op) THEN {"branch"}
    ELSE IF IsImmediateDataProcessing(op) \/ IsRegisterDataProcessing(op)
         THEN {"data_processing"}
    ELSE IF IsMultiply(op) THEN {"mul"}
    ELSE IF IsLongMultiply(op) THEN {"mull"}
    ELSE IF IsHalfwordTransfer(op) THEN {"hsdt"}
    ELSE IF IsSingleTransfer(op) THEN {"sdt"}
    ELSE IF IsBlockTransfer(op) THEN {"bdt"}
    ELSE IF IsSwi(op) THEN {"swi"}
    ELSE {}

\* An undefined word: bits 27-25 = 011 with bit 4 set, or a coprocessor
\* word (bits 27-25 = 110), which no class of the ARM7TDMI decodes.
IsUndefinedWord(op) == (ClassOf(op) = 3 /\ Bit(op, 4) = 1) \/ ClassOf(op) = 6

\* C11: every data-processing word with an immediate second operand (not a
\* PSR-transfer encoding) whose condition passes is handed to the
\* data-processing executor, whatever its 8-bit immediate and 4-bit rotate.
C11_ImmediateDispatch ==
    [][(ArmStepTaken /\ IsImmediateDataProcessing(core.prefetch)
        /\ ConditionPasses(core.prefetch, core.cpsr))
          => last'.decision = "data_processing"]_vars

\* C12: every word of a mandatory class whose condition passes is handed to
\* an executor of its class, and never reaches the 'Unknown instruction' halt.
C12_MandatoryDispatch ==
    [][(ArmStepTaken /\ ExecutorsOfClass(core.prefetch) # {}
        /\ ConditionPasses(core.prefetch, core.cpsr))
          => /\ last'.decision \in ExecutorsOfClass(core.prefetch)
             /\ core'.status # "panic: Unknown instruction"]_vars

\* C15: an undefined word whose condition passes is taken as a guest fault
\* inside the emulated CPU; the step returns and the core is not halted.
C15_UndefinedIsGuestFault ==
    [][(ArmStepTaken /\ IsUndefinedWord(core.prefetch)
        /\ ConditionPasses(core.prefetch, core.cpsr))
          => /\ last'.decision \notin Panics
             /\ core'.status = "running"]_vars

\* C16: a word of the data-processing classes is handed to the MSR executor
\* exactly when its bits 23-24 are 0b10 and its bits 12-21 are 0b1010011111,
\* and to the MSR-flags executor exactly when bits 23-24 are 0b10 and bits
\* 12-21 are 0b1010001111.
C16_MsrDispatch ==
    [][(ArmStepTaken /\ ClassOf(core.prefetch) \in {0, 1}
        /\ ConditionPasses(core.prefetch, core.cpsr))
          => /\ last'.decision = "msr"
                  <=> (BitsVal(core.prefetch, 23, 25) = 2
                       /\ BitsVal(core.prefetch, 12, 22) = 671)
             /\ last'.decision = "msrf"
                  <=> (BitsVal(core.prefetch, 23, 25) = 2
                       /\ BitsVal(core.prefetch, 12, 22) = 655)]_vars

\* C18: a word is handed to the multiply executor only if it is a MUL or MLA
\* encoding; SWP and the half-word and signed transfers never are.
C18_MultiplyDispatch ==
    [][(ArmStepTaken /\ last'.decision = "mul") => IsMultiply(core.prefetch)]_vars

(***************************************************************************)
(* Properties of core_step and core_run                                    *)
(***************************************************************************)
\* C13: core_step selects the executor by CPSR.T: with T = 0 it takes an ARM
\* step; with T = 1 it fetches, decodes and executes a Thumb instruction and
\* returns with the core able to take the next step.
C13_StepByState ==
    [][StepTaken =>
          IF core.cpsr.thumb = 1
          THEN /\ last'.kind = "step_thumb"
               /\ core'.status = "running"
          ELSE last'.kind = "step_arm"]_vars

\* core_run has returned to the host.
RunReturned == last.kind = "run" /\ last.returned

\* C14: core_run executes instructions until the cycle budget is reached and
\* then returns to the host: every run of the loop ends with the return of
\* core_run, unless the core halts or leaves the modelled memory first.
C14_RunReturns == <>(RunReturned \/ ~ENABLED RunStep)

(***************************************************************************)
(* Properties of the memory map                                            *)
(***************************************************************************)
\* An address has been decoded.
AddressDecoded == Len(bus) = 2

\* C17: for every region, the offset addr & MASK of an address inside the
\* base window is addr - START, and the offset of any address of the region,
\* mirrors included, is below the size of the backing array; in VRAM an
\* address whose distance from START has bit 16 set lands in the top 32 KiB
\* of the array.
C17_RegionOffsets ==
    AddressDecoded =>
        LET r == bus[1].region
            addr == bus[1].addr
            offset == bus[2].offset
        IN  /\ (addr >= r.start /\ addr <= r.end) => offset = addr - r.start
            /\ offset < r.size
            /\ (r.name = "VRAM" /\ ((addr - r.start) \div 65536) % 2 = 1)
                  => (offset >= 65536 /\ offset < 98304)

(***************************************************************************)
(* Properties of the GPIO block                                            *)
(***************************************************************************)
\* The most recent write to GPIO_REG_CTRL had bit 0 set.
CtrlBitSet(g) == g.last_ctrl # -1 /\ g.last_ctrl % 2 = 1

C20_NoNullFlagsRead ==
    (gba # <<>> /\ ~gba[1].game_entry.present) => ~gba[1].null_flags_read

====
